---------------------------- MODULE Spec2Model ----------------------------
(***************************************************************************)
(* Leader discovery of aurora_exporter (finder.go): newFinder, the HTTP   *)
(* probe and the ZooKeeper finder.                                         *)
(*                                                                         *)
(* The repository holds two variants of the file, src/finder.go and        *)
(* src/unnamed/part_000.  They share leaderzNode and leaderURL and differ  *)
(* in how watch() treats a payload that does not decode; the variable      *)
(* `variant` says which file a behaviour runs.                             *)
(*                                                                         *)
(* Strings are TLA+ strings (TLC evaluates Len, SubSeq, Head, Tail and \o  *)
(* on them), so node names, payload hosts and URLs are the program's own   *)
(* values.                                                                 *)
(***************************************************************************)
EXTENDS Integers, Sequences, FiniteSets, TLC

VARIABLES
    variant,    \* which file runs: "finder.go" or "part_000"
    leaderIP,   \* zkFinder.leaderIP
    leaderPort, \* zkFinder.leaderPort
    wlock,      \* zkFinder.RWMutex: the exclusive lock is held
    rlock,      \* zkFinder.RWMutex: the queries holding the shared lock
    pc,         \* watch(): the statement the watcher goroutine is at
    zNode,      \* watch(): local zNode
    data,       \* watch(): local data
    events,     \* watch(): local events, the one-shot channel of GetW
    e,          \* watch(): local e, the entity of the last decode that succeeded
    err,        \* watch(): local err
    refreshed,  \* history: some refresh cycle has published into the cache
    rpc,        \* leaderURL(): the statement each query is at
    rHost,      \* leaderURL(): the first argument of Sprintf, once evaluated
    rRes,       \* leaderURL(): the (url, err) a query is returning
    zkNodes,    \* coordination service: the children of the election directory
    zkData,     \* coordination service: the data of each child
    selIn,      \* leaderzNode on its own: the reply of conn.Children
    selOut,     \* leaderzNode on its own: its (path, err) result, or NotRun
    addr,       \* newFinder: its argument url
    fnd,        \* newFinder: its (f, err) result, or NotCalled
    rresp,      \* httpFinder.leaderURL: what RoundTrip returned to the last call
    probe,      \* httpFinder.leaderURL: the (url, err) of the last call
    sessionEvents \* newZkFinder: the session-event channel of zk.Connect

cacheVars == <<leaderIP, leaderPort>>
lockVars == <<wlock, rlock>>
watchVars == <<pc, zNode, data, events, e, err, refreshed>>
queryVars == <<rpc, rHost, rRes>>
zkVars == <<zkNodes, zkData>>
selVars == <<selIn, selOut>>
facadeVars == <<addr, fnd, rresp, probe>>
vars == <<variant, cacheVars, lockVars, watchVars, queryVars, zkVars, selVars, facadeVars,
          sessionEvents>>

(***************************************************************************)
(* Constants of the program.                                               *)
(***************************************************************************)
zkPath == "/aurora/scheduler"
zkLeaderPrefix == "member_"

\* A nil error value.
Nil == "<nil>"

ErrNilStat == "zkFinder: children returned nil stat"
ErrNotFound == "zkFinder: zNode not found"
\* An error returned by the coordination client's Children call.
ErrZk == "zk: could not connect to a server"

(***************************************************************************)
(* strings.Split(s, sep) for a non-empty sep.                              *)
(***************************************************************************)
RECURSIVE Index(_, _, _)
\* The first position >= i at which sep occurs in s, or 0.
Index(s, sep, i) ==
    IF i + Len(sep) - 1 > Len(s) THEN 0
    ELSE IF SubSeq(s, i, i + Len(sep) - 1) = sep THEN i
    ELSE Index(s, sep, i + 1)

RECURSIVE Split(_, _)
Split(s, sep) ==
    LET i == Index(s, sep, 1) IN
    IF i = 0 THEN <<s>>
    ELSE <<SubSeq(s, 1, i - 1)>> \o Split(SubSeq(s, i + Len(sep), Len(s)), sep)

(***************************************************************************)
(* strconv.Atoi(s): an optional sign, then one or more decimal digits.     *)
(* The names the model draws have values far below 2^63, so the range      *)
(* error of Atoi does not arise.                                           *)
(***************************************************************************)
Digits == {"0", "1", "2", "3", "4", "5", "6", "7", "8", "9"}

DigitVal(c) ==
    CASE c = "0" -> 0 [] c = "1" -> 1 [] c = "2" -> 2 [] c = "3" -> 3
      [] c = "4" -> 4 [] c = "5" -> 5 [] c = "6" -> 6 [] c = "7" -> 7
      [] c = "8" -> 8 [] c = "9" -> 9

RECURSIVE AllDigits(_)
AllDigits(s) == s = "" \/ (Head(s) \in Digits /\ AllDigits(Tail(s)))

RECURSIVE DigitsValue(_, _)
DigitsValue(s, acc) ==
    IF s = "" THEN acc ELSE DigitsValue(Tail(s), 10 * acc + DigitVal(Head(s)))

ErrSyntax(s) == "strconv.Atoi: parsing \"" \o s \o "\": invalid syntax"

Atoi(s) ==
    LET signed == s # "" /\ Head(s) \in {"+", "-"}
        body == IF signed THEN Tail(s) ELSE s
        neg == signed /\ Head(s) = "-"
    IN  IF body = "" \/ ~AllDigits(body)
        THEN [val |-> 0, err |-> ErrSyntax(s)]
        ELSE [val |-> IF neg THEN 0 - DigitsValue(body, 0) ELSE DigitsValue(body, 0),
              err |-> Nil]

(***************************************************************************)
(* zkFinder.leaderzNode.  resp is the reply of conn.Children(zkPath):      *)
(* [children, stat, err], stat being "nil" or "ok".                        *)
(***************************************************************************)
RECURSIVE ScanChildren(_, _, _, _)
\* The loop over children from index i on, with the loop's variables
\* leaderSeq and leader; its result is [leader, err].
ScanChildren(children, i, leaderSeq, leader) ==
    IF i > Len(children) THEN [leader |-> leader, err |-> Nil]
    ELSE
        LET child == children[i]
            path == Split(child, zkLeaderPrefix)
        IN  IF Len(path) > 1
            THEN LET a == Atoi(path[2])
                     first == IF leader = "" THEN child ELSE leader
                 IN  IF a.err # Nil THEN [leader |-> "", err |-> a.err]
                     ELSE IF a.val <= leaderSeq
                          THEN ScanChildren(children, i + 1, a.val, child)
                          ELSE ScanChildren(children, i + 1, leaderSeq, first)
            ELSE ScanChildren(children, i + 1, leaderSeq, leader)

\* leaderzNode without the final `leader == ""` test.
leaderzNodeNoEmptyTest(resp) ==
    LET err0 == IF resp.stat = "nil" THEN ErrNilStat ELSE resp.err IN
    IF err0 # Nil THEN [path |-> "", err |-> err0]
    ELSE LET r == ScanChildren(resp.children, 1, 0, "") IN
         IF r.err # Nil THEN [path |-> "", err |-> r.err]
         ELSE [path |-> zkPath \o "/" \o r.leader, err |-> Nil]

leaderzNode(resp) ==
    LET err0 == IF resp.stat = "nil" THEN ErrNilStat ELSE resp.err IN
    IF err0 # Nil THEN [path |-> "", err |-> err0]
    ELSE LET r == ScanChildren(resp.children, 1, 0, "") IN
         IF r.err # Nil THEN [path |-> "", err |-> r.err]
         ELSE IF r.leader = "" THEN [path |-> "", err |-> ErrNotFound]
         ELSE [path |-> zkPath \o "/" \o r.leader, err |-> Nil]

(***************************************************************************)
(* fmt.Sprintf("http://%s:%d", host, port).                                *)
(***************************************************************************)
DigitChar(d) ==
    CASE d = 0 -> "0" [] d = 1 -> "1" [] d = 2 -> "2" [] d = 3 -> "3"
      [] d = 4 -> "4" [] d = 5 -> "5" [] d = 6 -> "6" [] d = 7 -> "7"
      [] d = 8 -> "8" [] d = 9 -> "9"

RECURSIVE NatToString(_)
NatToString(n) ==
    IF n < 10 THEN DigitChar(n) ELSE NatToString(n \div 10) \o DigitChar(n % 10)

\* The verb %d.
FormatInt(n) == IF n < 0 THEN "-" \o NatToString(0 - n) ELSE NatToString(n)

FormatURL(host, port) == "http://" \o host \o ":" \o FormatInt(port)

ErrNoLeader == "zkFinder: no leader found via ZooKeeper"

(***************************************************************************)
(* The advertisement payloads a leader node may hold, and their decoding   *)
(* into entity.ServiceEndpoint.  The JSON decoder is a library; it is      *)
(* modelled on the payloads below: a payload that is no JSON object fails, *)
(* and a member that is missing leaves the zero value of its field.        *)
(***************************************************************************)
SOH == ""

PayloadA == "{\"serviceEndpoint\":{\"host\":\"10.0.0.1\",\"port\":8081},\"status\":\"ALIVE\"}"
PayloadB == "{\"serviceEndpoint\":{\"host\":\"10.0.0.2\",\"port\":8082},\"status\":\"ALIVE\"}"
PayloadNoHost == "{\"status\":\"ALIVE\"}"

Payloads == {PayloadA, PayloadB, PayloadNoHost, SOH}

\* The text of s after the first occurrence of key, up to the first
\* character of stops; "" when key does not occur.
RECURSIVE TakeUntil(_, _)
TakeUntil(s, stops) ==
    IF s = "" \/ Head(s) \in stops THEN "" ELSE Head(s) \o TakeUntil(Tail(s), stops)

MemberText(s, key, stops) ==
    LET parts == Split(s, key) IN
    IF Len(parts) > 1 THEN TakeUntil(parts[2], stops) ELSE ""

IsJSONObject(s) == Len(s) >= 2 /\ Head(s) = "{" /\ SubSeq(s, Len(s), Len(s)) = "}"

ErrDecode == "invalid character '\\x01' looking for beginning of value"

\* json.Unmarshal(data, &e) / json.NewDecoder(...).Decode(&e): [e, err].
Decode(bytes) ==
    IF ~IsJSONObject(bytes)
    THEN [e |-> [Host |-> "", Port |-> 0], err |-> ErrDecode]
    ELSE LET host == MemberText(bytes, "\"host\":\"", {"\""})
             port == MemberText(bytes, "\"port\":", {",", "}"})
         IN  [e |-> [Host |-> host, Port |-> IF port = "" THEN 0 ELSE Atoi(port).val],
              err |-> Nil]

(***************************************************************************)
(* The coordination service, seen through conn.Children and conn.GetW.     *)
(***************************************************************************)
\* The members that may register under the election directory.
Members == {"member_0000000002", "member_0000000005"}
\* A child whose suffix is no number.
Stray == "member_x"

NodePath(n) == zkPath \o "/" \o n

\* The payloads member n may store at its node: its own advertisement, an
\* object without an endpoint, or the SOH placeholder.
NodePayloads(n) ==
    {IF n = "member_0000000002" THEN PayloadA ELSE PayloadB, PayloadNoHost, SOH}

\* The orders in which a set of children can be listed.
Listings(S) ==
    { f \in [1..Cardinality(S) -> S] : \A i, j \in 1..Cardinality(S) : f[i] = f[j] => i = j }

\* The replies conn.Children can give.
ChildrenReplies ==
    { [children |-> c, stat |-> "ok", err |-> Nil] : c \in Listings(zkNodes) }
    \cup { [children |-> <<>>, stat |-> "ok", err |-> ErrZk],
           [children |-> <<>>, stat |-> "nil", err |-> Nil] }

ErrNoNode == "zk: node does not exist"

\* The states of the channel GetW returns: no channel, open and empty, one
\* event buffered (the channel is closed behind it), closed and empty.
NoChan == "nil"
Armed == "open"
Closed == "closed"
EventNodeDeleted == "EventNodeDeleted"
EventNodeDataChanged == "EventNodeDataChanged"
\* The Err of the event a watch gets when its session has expired; the
\* Type of that event is EventNotWatching.
ErrSessionExpired == "zk: session has been expired by the server"
EventErr == "EventNotWatching/" \o ErrSessionExpired
EventValues == {EventNodeDeleted, EventNodeDataChanged, EventErr}

\* The replies conn.GetW(path) can give: [data, stat, events, err].
GetWReplies(path) ==
    { [data |-> "", stat |-> "nil", events |-> NoChan, err |-> ErrZk] }
    \cup IF \E n \in zkNodes : NodePath(n) = path
         THEN { [data |-> IF n \in Members THEN zkData[n] ELSE "",
                 stat |-> "ok", events |-> Armed, err |-> Nil] :
                   n \in {k \in zkNodes : NodePath(k) = path} }
         ELSE { [data |-> "", stat |-> "nil", events |-> NoChan, err |-> ErrNoNode] }

\* The process runs: glog.Fatal has not ended it.
Running == pc # "exited"

\* The watch registered by the last GetW is on node n and has not fired.
Watched(n) == events = Armed /\ zNode = NodePath(n)

\* The channel of session events: the client has sent an event that the
\* logging goroutine has not received yet, or the goroutine has received
\* and logged everything sent so far.  zk.Connect starts the client's loop,
\* whose first act is to send StateConnecting.
EventWaiting == "event"
Drained == "drained"

\* The connectivity to the ensemble changes: the client sends an event.
ZkSessionEvent ==
    /\ Running
    /\ sessionEvents = Drained
    /\ sessionEvents' = EventWaiting
    /\ UNCHANGED <<variant, cacheVars, lockVars, watchVars, queryVars, zkVars, selVars,
                   facadeVars>>

\* The goroutine started by newZkFinder with a new cycle of the watcher
\* forced on every session event.
LogSessionEventRestarting ==
    /\ Running
    /\ sessionEvents = EventWaiting
    /\ sessionEvents' = Drained
    /\ pc' = IF pc \in {"await", "locate", "fetch"} THEN "tick" ELSE pc
    /\ UNCHANGED <<variant, cacheVars, lockVars, zNode, data, events, e, err, refreshed,
                   queryVars, zkVars, selVars, facadeVars>>

\* for ev := range events { glog.V(6).Infof(...) }: the goroutine started by
\* newZkFinder receives a session event and logs it.
LogSessionEvent ==
    /\ Running
    /\ sessionEvents = EventWaiting
    /\ sessionEvents' = Drained
    /\ UNCHANGED <<variant, cacheVars, lockVars, watchVars, queryVars, zkVars, selVars,
                   facadeVars>>

ZkCreate(n, p) ==
    /\ Running
    /\ n \notin zkNodes
    /\ zkNodes' = zkNodes \cup {n}
    /\ zkData' = IF n \in Members THEN [zkData EXCEPT ![n] = p] ELSE zkData
    /\ UNCHANGED <<variant, cacheVars, lockVars, watchVars, queryVars, selVars, facadeVars, sessionEvents>>

ZkDelete(n) ==
    /\ Running
    /\ n \in zkNodes
    /\ zkNodes' = zkNodes \ {n}
    /\ zkData' = IF n \in Members THEN [zkData EXCEPT ![n] = ""] ELSE zkData
    /\ events' = IF Watched(n) THEN EventNodeDeleted ELSE events
    /\ UNCHANGED <<variant, cacheVars, lockVars, pc, zNode, data, e, err, refreshed, queryVars, selVars, facadeVars, sessionEvents>>

ZkSetData(n, p) ==
    /\ Running
    /\ n \in zkNodes \cap Members
    /\ zkData[n] # p
    /\ zkData' = [zkData EXCEPT ![n] = p]
    /\ events' = IF Watched(n) THEN EventNodeDataChanged ELSE events
    /\ UNCHANGED <<variant, cacheVars, lockVars, pc, zNode, data, e, err, refreshed, zkNodes, queryVars, selVars, facadeVars, sessionEvents>>

\* The session behind an open watch expires: the watch gets an error event.
ZkSessionExpired ==
    /\ events = Armed
    /\ events' = EventErr
    /\ UNCHANGED <<variant, cacheVars, lockVars, pc, zNode, data, e, err, refreshed, zkVars, queryVars, selVars, facadeVars, sessionEvents>>

(***************************************************************************)
(* zkFinder.watch: one action per statement of the loop body.              *)
(***************************************************************************)
Variants == {"finder.go", "part_000"}

ErrNilStatGet == "get returned nil stat"
ErrDeleted == "leader zNode deleted"
\* fmt.Errorf("watcher error %+v", ev.Err): the text of ev.Err alone.
ErrWatcher == "watcher error " \o ErrSessionExpired

\* The ticker delivers a tick: the loop body starts.
Tick ==
    /\ pc = "tick"
    /\ pc' = "locate"
    /\ UNCHANGED <<variant, cacheVars, lockVars, zNode, data, events, e, err,
                   refreshed, queryVars, zkVars, selVars, facadeVars, sessionEvents>>

\* zNode, err := f.leaderzNode(), conn.Children replying resp; on an error,
\* warn and continue.
LocateOn(resp) ==
    /\ pc = "locate"
    /\ LET r == leaderzNode(resp) IN
          /\ zNode' = r.path
          /\ err' = r.err
          /\ pc' = IF r.err # Nil THEN "tick" ELSE "fetch"
    /\ UNCHANGED <<variant, cacheVars, lockVars, data, events, e, refreshed,
                   queryVars, zkVars, selVars, facadeVars, sessionEvents>>

Locate == \E resp \in ChildrenReplies : LocateOn(resp)

\* The fetch resetting the cache when GetW fails.
FetchOnClearing(resp) ==
    /\ pc = "fetch"
    /\ LET err1 == IF resp.stat = "nil" THEN ErrNilStatGet ELSE resp.err IN
          /\ data' = resp.data
          /\ events' = resp.events
          /\ err' = err1
          /\ pc' = IF err1 # Nil THEN "tick" ELSE "lock"
          /\ zNode' = IF err1 # Nil THEN "" ELSE zNode
          /\ leaderIP' = IF err1 # Nil THEN "" ELSE leaderIP
          /\ leaderPort' = IF err1 # Nil THEN 0 ELSE leaderPort
    /\ UNCHANGED <<variant, lockVars, e, refreshed, queryVars, zkVars, selVars, facadeVars, sessionEvents>>

\* data, stat, events, err := f.conn.GetW(zNode), replying resp; on an error
\* or a nil stat, warn and continue.
FetchOn(resp) ==
    /\ pc = "fetch"
    /\ LET err1 == IF resp.stat = "nil" THEN ErrNilStatGet ELSE resp.err IN
          /\ data' = resp.data
          /\ events' = resp.events
          /\ err' = err1
          /\ pc' = IF err1 # Nil THEN "tick" ELSE "lock"
          /\ zNode' = IF err1 # Nil THEN "" ELSE zNode
    /\ UNCHANGED <<variant, cacheVars, lockVars, e, refreshed, queryVars, zkVars, selVars, facadeVars, sessionEvents>>

Fetch == \E resp \in GetWReplies(zNode) : FetchOn(resp)

\* f.Lock() is called: the watcher announces itself as the pending writer.
\* The call blocks here while the exclusive lock is still held.
LockBegin ==
    /\ pc = "lock"
    /\ ~wlock
    /\ pc' = "lockWait"
    /\ UNCHANGED <<variant, cacheVars, lockVars, zNode, data, events, e, err,
                   refreshed, queryVars, zkVars, selVars, facadeVars, sessionEvents>>

\* f.Lock() returning while queries still hold the shared lock.
LockAcquireNoWait ==
    /\ pc = "lockWait"
    /\ wlock' = TRUE
    /\ pc' = "decode"
    /\ UNCHANGED <<variant, cacheVars, rlock, zNode, data, events, e, err,
                   refreshed, queryVars, zkVars, selVars, facadeVars, sessionEvents>>

\* f.Lock() returns once the queries holding the shared lock have left.
LockAcquire ==
    /\ pc = "lockWait"
    /\ rlock = {}
    /\ wlock' = TRUE
    /\ pc' = "decode"
    /\ UNCHANGED <<variant, cacheVars, rlock, zNode, data, events, e, err,
                   refreshed, queryVars, zkVars, selVars, facadeVars, sessionEvents>>

\* What follows a decode that failed, with the lock held:
\* finder.go calls glog.Fatal, which ends the process; part_000 warns and
\* continues the loop.
DecodeFailed ==
    IF variant = "finder.go" THEN pc' = "exited" ELSE pc' = "tick"

\* The locals zNode, data and events of a loop body that has ended.
EndOfBody == zNode' = "" /\ data' = "" /\ events' = NoChan

\* The decode under the lock.  In part_000 the test of data against SOH
\* assigns err, and the assignment from json.Unmarshal then replaces it.
DecodeStep ==
    /\ pc = "decode"
    /\ LET d == Decode(data) IN
          /\ err' = d.err
          /\ IF d.err # Nil
             THEN DecodeFailed /\ EndOfBody /\ UNCHANGED e
             ELSE pc' = "setIP" /\ e' = d.e /\ data' = "" /\ UNCHANGED <<zNode, events>>
    /\ UNCHANGED <<variant, cacheVars, lockVars, refreshed, queryVars, zkVars, selVars, facadeVars, sessionEvents>>

\* f.leaderIP = e.ServiceEndpoint.Host
SetIP ==
    /\ pc = "setIP"
    /\ leaderIP' = e.Host
    /\ pc' = "setPort"
    /\ UNCHANGED <<variant, leaderPort, lockVars, zNode, data, events, e, err,
                   refreshed, queryVars, zkVars, selVars, facadeVars, sessionEvents>>

\* The loop body without the assignment to f.leaderPort.
SetPortSkipped ==
    /\ pc = "setPort"
    /\ refreshed' = TRUE
    /\ pc' = "unlock"
    /\ UNCHANGED <<variant, cacheVars, lockVars, zNode, data, events, e, err,
                   queryVars, zkVars, selVars, facadeVars, sessionEvents>>

\* f.leaderPort = e.ServiceEndpoint.Port
SetPort ==
    /\ pc = "setPort"
    /\ leaderPort' = e.Port
    /\ refreshed' = TRUE
    /\ pc' = "unlock"
    /\ UNCHANGED <<variant, leaderIP, lockVars, zNode, data, events, e, err,
                   queryVars, zkVars, selVars, facadeVars, sessionEvents>>

\* f.Unlock()
Unlock ==
    /\ pc = "unlock"
    /\ wlock' = FALSE
    /\ pc' = "await"
    /\ UNCHANGED <<variant, cacheVars, rlock, zNode, data, events, e, err,
                   refreshed, queryVars, zkVars, selVars, facadeVars, sessionEvents>>

\* The receive loop resetting the cache when the node is reported deleted.
AwaitEventClearing ==
    /\ pc = "await"
    /\ events \in EventValues
    /\ err' = CASE events = EventErr -> ErrWatcher
                [] events = EventNodeDeleted -> ErrDeleted
                [] OTHER -> err
    /\ IF events \in {EventErr, EventNodeDeleted}
       THEN pc' = "tick" /\ EndOfBody
       ELSE pc' = "await" /\ events' = Closed /\ UNCHANGED <<zNode, data>>
    /\ leaderIP' = IF events = EventNodeDeleted THEN "" ELSE leaderIP
    /\ leaderPort' = IF events = EventNodeDeleted THEN 0 ELSE leaderPort
    /\ UNCHANGED <<variant, lockVars, e, refreshed, queryVars, zkVars, selVars, facadeVars, sessionEvents>>

\* for ev := range events receives the buffered event: an error event or a
\* deletion sets err and breaks out of the loop; any other event is followed
\* by the next receive.
AwaitEvent ==
    /\ pc = "await"
    /\ events \in EventValues
    /\ err' = CASE events = EventErr -> ErrWatcher
                [] events = EventNodeDeleted -> ErrDeleted
                [] OTHER -> err
    /\ IF events \in {EventErr, EventNodeDeleted}
       THEN pc' = "tick" /\ EndOfBody
       ELSE pc' = "await" /\ events' = Closed /\ UNCHANGED <<zNode, data>>
    /\ UNCHANGED <<variant, cacheVars, lockVars, e, refreshed, queryVars, zkVars, selVars, facadeVars, sessionEvents>>

\* The loop fetching the node it located before, once the channel closes.
AwaitClosedRefetch ==
    /\ pc = "await"
    /\ events = Closed
    /\ pc' = "fetch"
    /\ data' = "" /\ events' = NoChan
    /\ UNCHANGED <<variant, cacheVars, lockVars, zNode, e, err, refreshed, queryVars,
                   zkVars, selVars, facadeVars, sessionEvents>>

\* for ev := range events finds the channel closed: the loop body ends.
AwaitClosed ==
    /\ pc = "await"
    /\ events = Closed
    /\ pc' = "tick"
    /\ EndOfBody
    /\ UNCHANGED <<variant, cacheVars, lockVars, e, err, refreshed, queryVars, zkVars, selVars, facadeVars, sessionEvents>>

(***************************************************************************)
(* zkFinder.leaderURL, called by the queries of Queries.                   *)
(***************************************************************************)
NumQueries == 2
Queries == 1..NumQueries

NoResult == [url |-> "", err |-> "not returned"]

\* f.RLock(): blocks while the exclusive lock is held or a writer is pending.
RLock(q) ==
    /\ Running
    /\ rpc[q] = "idle"
    /\ ~wlock /\ pc # "lockWait"
    /\ rlock' = rlock \cup {q}
    /\ rpc' = [rpc EXCEPT ![q] = "check"]
    /\ UNCHANGED <<variant, cacheVars, wlock, watchVars, rHost, rRes, zkVars, selVars, facadeVars, sessionEvents>>

\* if f.leaderIP == "" { return "", errors.New(...) }
CheckIP(q) ==
    /\ Running
    /\ rpc[q] = "check"
    /\ IF leaderIP = ""
       THEN /\ rRes' = [rRes EXCEPT ![q] = [url |-> "", err |-> ErrNoLeader]]
            /\ rpc' = [rpc EXCEPT ![q] = "return"]
       ELSE /\ rpc' = [rpc EXCEPT ![q] = "fmtHost"]
            /\ UNCHANGED rRes
    /\ UNCHANGED <<variant, cacheVars, lockVars, watchVars, rHost, zkVars, selVars, facadeVars, sessionEvents>>

\* The argument f.leaderIP of Sprintf is evaluated.
FmtHost(q) ==
    /\ Running
    /\ rpc[q] = "fmtHost"
    /\ rHost' = [rHost EXCEPT ![q] = leaderIP]
    /\ rpc' = [rpc EXCEPT ![q] = "fmtPort"]
    /\ UNCHANGED <<variant, cacheVars, lockVars, watchVars, rRes, zkVars, selVars, facadeVars, sessionEvents>>

\* The argument f.leaderPort of Sprintf is evaluated and the URL is formatted.
FmtPort(q) ==
    /\ Running
    /\ rpc[q] = "fmtPort"
    /\ rRes' = [rRes EXCEPT ![q] = [url |-> FormatURL(rHost[q], leaderPort), err |-> Nil]]
    /\ rHost' = [rHost EXCEPT ![q] = ""]
    /\ rpc' = [rpc EXCEPT ![q] = "return"]
    /\ UNCHANGED <<variant, cacheVars, lockVars, watchVars, zkVars, selVars, facadeVars, sessionEvents>>

\* The deferred f.RUnlock() runs and the call returns to its caller.
RUnlock(q) ==
    /\ Running
    /\ rpc[q] = "return"
    /\ rlock' = rlock \ {q}
    /\ rpc' = [rpc EXCEPT ![q] = "idle"]
    /\ rRes' = [rRes EXCEPT ![q] = NoResult]
    /\ UNCHANGED <<variant, cacheVars, wlock, watchVars, rHost, zkVars, selVars, facadeVars, sessionEvents>>

(***************************************************************************)
(* newFinder and the HTTP probe, httpFinder.leaderURL.                     *)
(***************************************************************************)
\* strings.HasPrefix(s, prefix)
StringHasPrefix(s, prefix) ==
    Len(s) >= Len(prefix) /\ SubSeq(s, 1, Len(prefix)) = prefix

\* The byte c (a string of length one) occurs in cutset.
InCutset(c, cutset) == \E i \in 1..Len(cutset) : SubSeq(cutset, i, i) = c

\* strings.TrimRight(s, cutset): s without its trailing bytes that occur in
\* cutset.
RECURSIVE TrimRight(_, _)
TrimRight(s, cutset) ==
    IF s = "" THEN s
    ELSE IF InCutset(SubSeq(s, Len(s), Len(s)), cutset)
         THEN TrimRight(SubSeq(s, 1, Len(s) - 1), cutset)
         ELSE s

ErrBadAddress == "finder: bad address"
\* An error returned by httpClient.Transport.RoundTrip.
ErrTransport == "dial tcp: connection refused"

\* The prefix that makes an address one of the HTTP probe.
HTTPPrefix(v) == IF v = "finder.go" THEN "http://" ELSE "http"

\* newFinder(url) in the file v: which finder it builds, and its error.
newFinder(v, url) ==
    LET f1 == IF StringHasPrefix(url, HTTPPrefix(v)) THEN "httpFinder" ELSE "nil"
        f2 == IF StringHasPrefix(url, "zk://") THEN "zkFinder" ELSE f1
    IN  [f |-> f2, err |-> IF f2 = "nil" THEN ErrBadAddress ELSE Nil]

\* The outcomes of RoundTrip: a transport error, or a response whose
\* Location header has the value location ("" when the header is absent).
Locations ==
    { "", "http://leader:1234/scheduler", "http://leader:1234",
      "http://leader/scheduler", "http://leader:1234/scheduler/scheduler",
      "http://leader:1234/scheduler/", "http://leader:1234/schedulers",
      "http://leader:1234/such", "http://10.0.0.1:8081/scheduler",
      "http://10.0.0.1:8081/api" }

Responses ==
    { [location |-> l, err |-> Nil] : l \in Locations }
    \cup { [location |-> "", err |-> ErrTransport] }

\* httpFinder.leaderURL() of a finder built on url, RoundTrip returning resp.
httpLeaderURL(url, resp) ==
    LET schedulerURL == url \o "/scheduler"
        masterLoc == IF resp.location = "" THEN schedulerURL ELSE resp.location
    IN  IF resp.err # Nil
        THEN [url |-> "", err |-> resp.err]
        ELSE [url |-> TrimRight(masterLoc, "/scheduler"), err |-> Nil]

\* newFinder has not been called; no probe has been made.
NotCalled == [f |-> "none", err |-> "not called"]
NotProbed == [url |-> "", err |-> "not called"]
NoResponse == [location |-> "", err |-> "not called"]

\* The address and the finder of a process that runs the watcher.
WatcherAddress == "zk://zk1:2181"
InitFacadeWatcher ==
    /\ addr = WatcherAddress
    /\ fnd = newFinder(variant, WatcherAddress)
    /\ rresp = NoResponse
    /\ probe = NotProbed
    /\ sessionEvents = EventWaiting

(***************************************************************************)
(* The finder after newZkFinder: the watcher goroutine has started and is  *)
(* waiting for the first tick; the cache holds the zero values.            *)
(***************************************************************************)
InitFinder ==
    /\ leaderIP = ""
    /\ leaderPort = 0
    /\ wlock = FALSE
    /\ rlock = {}
    /\ pc = "tick"
    /\ zNode = ""
    /\ data = ""
    /\ events = NoChan
    /\ e = [Host |-> "", Port |-> 0]
    /\ err = Nil
    /\ refreshed = FALSE
    /\ rpc = [q \in Queries |-> "idle"]
    /\ rHost = [q \in Queries |-> ""]
    /\ rRes = [q \in Queries |-> NoResult]

\* The election directory when the finder starts.
InitZk ==
    /\ zkNodes \in SUBSET (Members \cup {Stray})
    /\ zkData \in [Members -> Payloads \cup {""}]
    /\ \A n \in Members : (zkData[n] = "") <=> (n \notin zkNodes)
    /\ \A n \in Members \cap zkNodes : zkData[n] \in NodePayloads(n)

Init ==
    /\ variant \in Variants
    /\ InitFinder
    /\ InitZk
    /\ selIn = [children |-> <<>>, stat |-> "ok", err |-> Nil]
    /\ selOut = [path |-> "", err |-> "not run"]
    /\ InitFacadeWatcher

Next ==
    \/ Tick
    \/ Locate
    \/ Fetch
    \/ LockBegin
    \/ LockAcquire
    \/ DecodeStep
    \/ SetIP
    \/ SetPort
    \/ Unlock
    \/ AwaitEvent
    \/ AwaitClosed
    \/ \E q \in Queries : RLock(q)
    \/ \E q \in Queries : CheckIP(q)
    \/ \E q \in Queries : FmtHost(q)
    \/ \E q \in Queries : FmtPort(q)
    \/ \E q \in Queries : RUnlock(q)
    \/ \E n \in Members \cup {Stray} : \E p \in NodePayloads(n) : ZkCreate(n, p)
    \/ \E n \in Members \cup {Stray} : ZkDelete(n)
    \/ \E n \in Members : \E p \in NodePayloads(n) : ZkSetData(n, p)
    \/ ZkSessionExpired
    \/ ZkSessionEvent
    \/ LogSessionEvent

Spec == Init /\ [][Next]_vars

(***************************************************************************)
(* The finder beside a coordination service that is stable from the start: *)
(* the election directory and the data of its nodes do not change, every   *)
(* call of Children and GetW succeeds, and so no notification arrives.     *)
(* The goroutine of the watcher is scheduled, the ticker ticks, and a      *)
(* call of leaderURL that has taken the lock runs to its end.              *)
(***************************************************************************)
StableLocate ==
    /\ pc = "locate"
    /\ \E resp \in {r \in ChildrenReplies : r.stat = "ok" /\ r.err = Nil} : LocateOn(resp)

StableFetch ==
    /\ pc = "fetch"
    /\ \E resp \in {r \in GetWReplies(zNode) : r.stat = "ok" /\ r.err = Nil} : FetchOn(resp)

QueryRuns(q) == CheckIP(q) \/ FmtHost(q) \/ FmtPort(q) \/ RUnlock(q)

NextStable ==
    \/ Tick
    \/ StableLocate
    \/ StableFetch
    \/ LockBegin
    \/ LockAcquire
    \/ DecodeStep
    \/ SetIP
    \/ SetPort
    \/ Unlock
    \/ LogSessionEvent
    \/ \E q \in Queries : RLock(q)
    \/ \E q \in Queries : CheckIP(q)
    \/ \E q \in Queries : FmtHost(q)
    \/ \E q \in Queries : FmtPort(q)
    \/ \E q \in Queries : RUnlock(q)

FairStable ==
    /\ WF_vars(Tick) /\ WF_vars(StableLocate) /\ WF_vars(StableFetch)
    /\ WF_vars(LockBegin) /\ WF_vars(LockAcquire) /\ WF_vars(DecodeStep)
    /\ WF_vars(SetIP) /\ WF_vars(SetPort) /\ WF_vars(Unlock)
    /\ \A q \in Queries : WF_vars(QueryRuns(q))

SpecStable == Init /\ [][NextStable]_vars /\ FairStable

(***************************************************************************)
(* leaderzNode on its own: a reply of conn.Children is drawn, the function *)
(* is applied to it once.                                                  *)
(***************************************************************************)
MaxChildren == 3

ChildNames ==
    { "member_0000000005", "member_0000000002", "member_0000000009",
      "member_0000000000", "member_x", "member_1member_x", "xmember_7",
      "lock_0000000001" }

ChildLists == UNION { [1..n -> ChildNames] : n \in 0..MaxChildren }

NotRun == [path |-> "", err |-> "not run"]

InitSel ==
    /\ variant \in Variants
    /\ InitFinder
    /\ zkNodes = {}
    /\ zkData = [n \in Members |-> ""]
    /\ selIn \in { [children |-> c, stat |-> "ok", err |-> Nil] : c \in ChildLists }
               \cup { [children |-> <<>>, stat |-> "nil", err |-> Nil],
                      [children |-> <<>>, stat |-> "nil", err |-> ErrZk],
                      [children |-> <<>>, stat |-> "ok", err |-> ErrZk] }
    /\ selOut = NotRun
    /\ InitFacadeWatcher

\* One call of leaderzNode on the drawn reply.
Select ==
    /\ selOut = NotRun
    /\ selOut' = leaderzNode(selIn)
    /\ UNCHANGED <<variant, cacheVars, lockVars, watchVars, queryVars, zkVars, selIn, facadeVars, sessionEvents>>

NextSel == Select

SpecSel == InitSel /\ [][NextSel]_vars

(***************************************************************************)
(* Properties of leaderzNode, checked under SpecSel.                       *)
(***************************************************************************)
\* name starts with the election prefix.
HasPrefix(name) ==
    /\ Len(name) >= Len(zkLeaderPrefix)
    /\ SubSeq(name, 1, Len(zkLeaderPrefix)) = zkLeaderPrefix

\* What follows the election prefix in a name that starts with it.
Suffix(name) == SubSeq(name, Len(zkLeaderPrefix) + 1, Len(name))

\* The election prefix occurs somewhere in name.
ContainsPrefix(name) ==
    \E i \in 1..(Len(name) - Len(zkLeaderPrefix) + 1) :
        SubSeq(name, i, i + Len(zkLeaderPrefix) - 1) = zkLeaderPrefix

\* s is a non-negative integer in decimal.
IsSequenceNumber(s) == s # "" /\ AllDigits(s)

SequenceOf(name) == DigitsValue(Suffix(name), 0)

\* leaderzNode has run on a listing that succeeded.
Selected == selOut # NotRun /\ selIn.stat = "ok" /\ selIn.err = Nil

\* C1: for every non-empty list of children that all carry the prefix and a
\* non-negative integer suffix, leaderzNode returns the path of the child
\* with the minimum suffix.
C1_MinimumSuffixSelected ==
    LET c == selIn.children IN
    ( /\ Selected
      /\ Len(c) > 0
      /\ \A i \in 1..Len(c) : HasPrefix(c[i]) /\ IsSequenceNumber(Suffix(c[i])) )
    => \E i \in 1..Len(c) :
          /\ \A j \in 1..Len(c) : SequenceOf(c[i]) <= SequenceOf(c[j])
          /\ selOut = [path |-> NodePath(c[i]), err |-> Nil]

\* C9: when no listed child contains the election prefix (the empty list
\* included), leaderzNode returns the not-found error and no path; and a
\* path it returns is always that of a child containing the prefix.
C9_NoPrefixedChildNotFound ==
    LET c == selIn.children IN
    Selected =>
      /\ (\A i \in 1..Len(c) : ~ContainsPrefix(c[i]))
            => selOut = [path |-> "", err |-> ErrNotFound]
      /\ selOut.err = Nil
            => \E i \in 1..Len(c) : ContainsPrefix(c[i]) /\ selOut.path = NodePath(c[i])

\* C9 happens: leaderzNode has failed with not-found on a non-empty list of
\* children without the prefix.
C9_Witness ==
    /\ Selected
    /\ Len(selIn.children) > 1
    /\ \A i \in 1..Len(selIn.children) : ~ContainsPrefix(selIn.children[i])
    /\ selOut.err = ErrNotFound

\* C10: when some listed child starts with the election prefix and what
\* follows the prefix is not a number, leaderzNode fails and returns no path.
C10_NonNumericSuffixFails ==
    LET c == selIn.children IN
    ( /\ Selected
      /\ \E i \in 1..Len(c) : HasPrefix(c[i]) /\ Atoi(Suffix(c[i])).err # Nil )
    => (selOut.err # Nil /\ selOut.path = "")

(***************************************************************************)
(* Properties of the cache, the watcher and the queries, checked under     *)
(* Spec.                                                                   *)
(***************************************************************************)
\* The (host, port) pairs of the advertisements that decode.
Advertised == { Decode(p).e : p \in {x \in Payloads : Decode(x).err = Nil} }

\* C2: a URL a query returns pairs the host and the port of one
\* advertisement, under every interleaving with the watcher.
C2_URLFromOneAdvertisement ==
    \A q \in Queries :
        rRes[q].err = Nil
          => \E a \in Advertised : rRes[q].url = FormatURL(a.Host, a.Port)

\* C2 happens: a query is returning a URL while the watcher, having fetched
\* a different advertisement, waits for the exclusive lock.
C2_Witness ==
    \E q \in Queries :
        /\ rpc[q] = "return" /\ rRes[q].err = Nil
        /\ pc = "lockWait"
        /\ Decode(data).err = Nil
        /\ Decode(data).e.Host \notin {"", leaderIP}

\* What a query returns when no leader is cached.
NoLeader == [url |-> "", err |-> ErrNoLeader]

\* The URL the specification gives for a host and a port: the scheme, the
\* host, a colon and the port in decimal.
SpecURL(host, port) == "http://" \o host \o ":" \o NatToString(port)

\* C3 as stated: a query returns the no-leader error before any refresh has
\* published, and the URL of the published host and port after one.
C3_QueryReturnsPublished ==
    \A q \in Queries :
        rpc[q] = "return" =>
            IF ~refreshed THEN rRes[q] = NoLeader
            ELSE rRes[q] = [url |-> SpecURL(e.Host, e.Port), err |-> Nil]

\* C4: a decode that fails is not fatal: the watcher goes on to wait for
\* the next tick and the cache keeps its value.
C4_DecodeFailureNotFatal ==
    [][ (pc = "decode" /\ Decode(data).err # Nil /\ pc' # pc)
          => (pc' = "tick" /\ leaderIP' = leaderIP /\ leaderPort' = leaderPort) ]_vars

\* The watcher waits: for the ticker, in a call of the coordination client,
\* or for the notification.
WatcherWaits == pc \in {"tick", "locate", "fetch", "await"}

\* C5: the exclusive lock is not held while the watcher waits, so a query
\* can always take the shared lock.
C5_LockFreeWhileWaiting == WatcherWaits => ~wlock

\* C7: the step that handles the deletion event leaves the cache as it is,
\* and the cache changes afterwards only by a refresh cycle writing the
\* fields of the advertisement it decoded.
C7_DeletionKeepsCache ==
    [][ /\ (pc = "await" /\ events = EventNodeDeleted /\ pc' = "tick")
            => (leaderIP' = leaderIP /\ leaderPort' = leaderPort)
        /\ (leaderIP' # leaderIP)
            => (pc = "setIP" /\ leaderIP' = e.Host /\ leaderPort' = leaderPort)
        /\ (leaderPort' # leaderPort)
            => (pc = "setPort" /\ leaderPort' = e.Port /\ leaderIP' = leaderIP) ]_vars

\* C7 happens: the deletion of the watched node has been handled while the
\* cache holds host 10.0.0.1 and port 8081.
C7_Witness ==
    /\ pc = "tick" /\ err = ErrDeleted
    /\ leaderIP = "10.0.0.1" /\ leaderPort = 8081

\* C8 as stated: in every state the cache is unset or holds the host and
\* port of one advertisement.
C8_CacheNeverPartial ==
    \/ (leaderIP = "" /\ leaderPort = 0)
    \/ \E a \in Advertised : leaderIP = a.Host /\ leaderPort = a.Port

\* C8 amended: outside the two assignments of the publish step the cache
\* holds the host and port of the advertisement decoded last (the zero
\* values before the first), and the two assignments run with the exclusive
\* lock held and no query holding the shared lock.
C8_CacheCompleteOutsidePublish ==
    /\ pc \notin {"setIP", "setPort"} => (leaderIP = e.Host /\ leaderPort = e.Port)
    /\ pc \in {"setIP", "setPort"} => (wlock /\ rlock = {})

\* C8 happens: a second advertisement has been published over the first.
C8_Witness ==
    /\ pc = "unlock" /\ leaderIP = "10.0.0.2" /\ leaderPort = 8082
    /\ \E q \in Queries : rpc[q] = "idle"

(***************************************************************************)
(* Property of the refresh loop beside a stable coordination service,      *)
(* checked under SpecStable.                                               *)
(***************************************************************************)
\* The member of the election directory with the lowest sequence number.
LowestMember ==
    CHOOSE m \in zkNodes : \A n \in zkNodes : SequenceOf(m) <= SequenceOf(n)

\* The directory holds members only, and the lowest one advertises a host
\* and port that decode.
StableElection ==
    /\ zkNodes # {} /\ zkNodes \subseteq Members
    /\ Decode(zkData[LowestMember]).err = Nil
    /\ Decode(zkData[LowestMember]).e.Host # ""

\* With a stable service no notification arrives: a watcher that has
\* published and waits on the channel has come to rest, and the cache keeps
\* the value it holds then.
AtRest == pc = "await"

\* C6: with the directory, the advertisement of its lowest member and the
\* service stable, once the refresh loop has come to rest the cache holds
\* the host and port the lowest member advertises and every query returns
\* their URL.
C6_LowestMemberAtRest ==
    (StableElection /\ AtRest) =>
        LET a == Decode(zkData[LowestMember]).e IN
        /\ leaderIP = a.Host /\ leaderPort = a.Port
        /\ \A q \in Queries :
              rpc[q] = "return" => rRes[q] = [url |-> FormatURL(a.Host, a.Port), err |-> Nil]

(***************************************************************************)
(* The facade on its own: newFinder is called on an address, and the       *)
(* caller queries the HTTP finder it may have got.  The watcher goroutine  *)
(* does not exist until newZkFinder starts it.                             *)
(***************************************************************************)
Addresses ==
    { "http://aurora:8081", "http://leader", "http://scheduler",
      "https://aurora:8081", "http", "httpx://aurora", "HTTP://aurora:8081",
      "zk://zk1:2181", "zk://zk1:2181,zk2:2181", "zk:/zk1:2181",
      "ftp://aurora", "aurora:8081", "" }

Unstarted == "unstarted"

InitFacade ==
    /\ variant \in Variants
    /\ leaderIP = "" /\ leaderPort = 0
    /\ wlock = FALSE /\ rlock = {}
    /\ pc = Unstarted
    /\ zNode = "" /\ data = "" /\ events = NoChan
    /\ e = [Host |-> "", Port |-> 0]
    /\ err = Nil
    /\ refreshed = FALSE
    /\ rpc = [q \in Queries |-> "idle"]
    /\ rHost = [q \in Queries |-> ""]
    /\ rRes = [q \in Queries |-> NoResult]
    /\ zkNodes = {}
    /\ zkData = [n \in Members |-> ""]
    /\ selIn = [children |-> <<>>, stat |-> "ok", err |-> Nil]
    /\ selOut = NotRun
    /\ addr \in Addresses
    /\ fnd = NotCalled
    /\ rresp = NoResponse
    /\ probe = NotProbed
    /\ sessionEvents = Drained

\* f, err := newFinder(addr); newZkFinder ends with go f.watch().
CallNewFinder ==
    /\ fnd = NotCalled
    /\ fnd' = newFinder(variant, addr)
    /\ pc' = IF fnd'.f = "zkFinder" THEN "tick" ELSE pc
    /\ UNCHANGED <<variant, cacheVars, lockVars, zNode, data, events, e, err,
                   refreshed, queryVars, zkVars, selVars, addr, rresp, probe>>
    /\ sessionEvents' = IF fnd'.f = "zkFinder" THEN EventWaiting ELSE sessionEvents

\* f.leaderURL() on the HTTP finder, RoundTrip returning resp.
ProbeOn(resp) ==
    /\ fnd.f = "httpFinder"
    /\ rresp' = resp
    /\ probe' = httpLeaderURL(addr, resp)
    /\ UNCHANGED <<variant, cacheVars, lockVars, watchVars, queryVars, zkVars,
                   selVars, addr, fnd, sessionEvents>>

Probe == \E resp \in Responses : ProbeOn(resp)

NextFacade ==
    \/ CallNewFinder
    \/ Probe

SpecFacade == InitFacade /\ [][NextFacade]_vars

(***************************************************************************)
(* Properties of newFinder and of the HTTP probe, checked under            *)
(* SpecFacade.                                                             *)
(***************************************************************************)
\* s without one trailing occurrence of suffix, when it ends with it.
TrimSuffix(s, suffix) ==
    IF Len(s) >= Len(suffix) /\ SubSeq(s, Len(s) - Len(suffix) + 1, Len(s)) = suffix
    THEN SubSeq(s, 1, Len(s) - Len(suffix))
    ELSE s

\* The last probe got a response, and the response had a Location header.
Redirected == rresp.err = Nil /\ rresp.location # ""

\* The last probe got a response without a Location header.
NotRedirected == rresp.err = Nil /\ rresp.location = ""

\* C11: a probe that got the Location header L returns L without one
\* trailing "/scheduler" when L ends with it, and L itself otherwise.
C11_LocationSuffixTrimmed ==
    Redirected => probe = [url |-> TrimSuffix(rresp.location, "/scheduler"), err |-> Nil]

\* C12: a probe whose response has no Location header returns the probed
\* scheduler URL, the base address followed by "/scheduler".
C12_NoLocationReturnsProbedURL ==
    NotRedirected => probe = [url |-> addr \o "/scheduler", err |-> Nil]

\* C13: newFinder returns the HTTP finder, with nothing started, for an
\* address that starts with http:// or https://, a started watcher for one
\* that starts with zk://, and for every other address no finder and the
\* bad-address error; it never returns a finder together with an error.
C13_StrategyFromScheme ==
    fnd # NotCalled =>
        /\ (StringHasPrefix(addr, "http://") \/ StringHasPrefix(addr, "https://"))
              => (fnd = [f |-> "httpFinder", err |-> Nil] /\ pc = Unstarted)
        /\ StringHasPrefix(addr, "zk://")
              => (fnd = [f |-> "zkFinder", err |-> Nil] /\ pc = "tick")
        /\ ~( \/ StringHasPrefix(addr, "http://") \/ StringHasPrefix(addr, "https://")
              \/ StringHasPrefix(addr, "zk://") )
              => (fnd = [f |-> "nil", err |-> ErrBadAddress] /\ pc = Unstarted)
        /\ (fnd.f = "nil") <=> (fnd.err # Nil)

(***************************************************************************)
(* The finder during an outage of the coordination service.  The watcher   *)
(* has published the advertisement of a member and either waits on the     *)
(* notification channel or is about to fetch in a later cycle; from then   *)
(* on every call of Children and of GetW fails and the session behind the  *)
(* watch expires.  The ticker ticks and the goroutines are scheduled.      *)
(***************************************************************************)
InitOutage ==
    /\ variant \in Variants
    /\ \E m \in Members :
          LET p == IF m = "member_0000000002" THEN PayloadA ELSE PayloadB IN
          /\ zkNodes = {m}
          /\ zkData = [n \in Members |-> IF n = m THEN p ELSE ""]
          /\ e = Decode(p).e
          /\ leaderIP = e.Host /\ leaderPort = e.Port
          /\ zNode = NodePath(m)
    /\ refreshed = TRUE
    /\ wlock = FALSE /\ rlock = {}
    /\ data = ""
    /\ err = Nil
    /\ \/ pc = "await" /\ events = Armed
       \/ pc = "fetch" /\ events = NoChan
    /\ rpc = [q \in Queries |-> "idle"]
    /\ rHost = [q \in Queries |-> ""]
    /\ rRes = [q \in Queries |-> NoResult]
    /\ selIn = [children |-> <<>>, stat |-> "ok", err |-> Nil]
    /\ selOut = NotRun
    /\ InitFacadeWatcher

\* Locate with conn.Children failing.
OutageLocate ==
    /\ pc = "locate"
    /\ \E resp \in {r \in ChildrenReplies : r.err # Nil \/ r.stat = "nil"} : LocateOn(resp)

\* Fetch with conn.GetW failing.
OutageFetch ==
    /\ pc = "fetch"
    /\ \E resp \in {r \in GetWReplies(zNode) : r.err = ErrZk} : FetchOn(resp)

NextOutage ==
    \/ Tick
    \/ OutageLocate
    \/ OutageFetch
    \/ ZkSessionExpired
    \/ ZkSessionEvent
    \/ LogSessionEvent
    \/ AwaitEvent
    \/ \E q \in Queries : RLock(q)
    \/ \E q \in Queries : CheckIP(q)
    \/ \E q \in Queries : FmtHost(q)
    \/ \E q \in Queries : FmtPort(q)
    \/ \E q \in Queries : RUnlock(q)

FairOutage ==
    /\ WF_vars(Tick) /\ WF_vars(OutageLocate) /\ WF_vars(OutageFetch)
    /\ WF_vars(ZkSessionExpired) /\ WF_vars(AwaitEvent)
    /\ \A q \in Queries : WF_vars(RLock(q)) /\ WF_vars(QueryRuns(q))

SpecOutage == InitOutage /\ [][NextOutage]_vars /\ FairOutage

\* C14: during an outage that lasts, the queries come to return the
\* no-leader error: from some point on no query returns anything else.
C14_OutageEndsInNoLeader ==
    <>[](\A q \in Queries : rpc[q] = "return" => rRes[q] = NoLeader)

(***************************************************************************)
(* Properties of the refresh cycle, checked under Spec.                    *)
(***************************************************************************)
\* No listing of the election directory gives leaderzNode a leader: the
\* directory is empty or holds a child whose suffix is no number.
NoLeaderToLocate == zkNodes = {} \/ Stray \in zkNodes

\* The node located in this cycle is gone from the directory.
LocatedNodeGone == \A n \in zkNodes : NodePath(n) # zNode

\* C15: a Locate or a Fetch either succeeds and passes to the next step
\* with a nil error, or fails, and then the watcher waits for the next
\* tick with the cache and the lock as they were; Locate fails when the
\* directory gives no leader and Fetch when the located node is gone; and
\* a tick starts the next cycle at Locate.
C15_FailedCycleKeepsCache ==
    [][ /\ (pc = "locate" /\ pc' # pc) =>
              /\ \/ pc' = "fetch" /\ err' = Nil
                 \/ pc' = "tick" /\ err' # Nil
              /\ NoLeaderToLocate => pc' = "tick"
              /\ UNCHANGED <<cacheVars, lockVars>>
        /\ (pc = "fetch" /\ pc' # pc) =>
              /\ \/ pc' = "lock" /\ err' = Nil
                 \/ pc' = "tick" /\ err' # Nil
              /\ LocatedNodeGone => pc' = "tick"
              /\ UNCHANGED <<cacheVars, lockVars>>
        /\ (pc = "tick" /\ pc' # pc) => pc' = "locate"
      ]_vars

\* C15 happens: with a leader cached, a cycle has ended in a Fetch that
\* failed because the located node was gone, and the cache is as it was.
C15_Witness ==
    /\ pc = "tick" /\ err = ErrNilStatGet
    /\ leaderIP = "10.0.0.1" /\ leaderPort = 8081
    /\ ~wlock

\* C16: after Publish the watcher waits on the notification channel; it
\* leaves the wait only on an error event, on a deletion or on the closed
\* channel, and then for the next tick; a data-change event is received and
\* the wait goes on until the channel is found closed; and a cycle reaches
\* Fetch only from its own Locate, with the path of a child the directory
\* holds at that moment, and fetches the data of that very node.
C16_AwaitEndsAndRelocates ==
    [][ /\ (pc = "unlock" /\ pc' # pc) => pc' = "await"
        /\ (pc = "await" /\ pc' # pc) =>
              (pc' = "tick" /\ events \in {EventErr, EventNodeDeleted, Closed})
        /\ (pc = "await" /\ pc' = pc /\ events = EventNodeDataChanged /\ events' # events) =>
              events' = Closed
        /\ (pc' = "fetch" /\ pc # "fetch") =>
              (pc = "locate" /\ \E n \in zkNodes : zNode' = NodePath(n))
        /\ (pc = "fetch" /\ pc' = "lock") =>
              /\ zNode' = zNode
              /\ \E n \in zkNodes : zNode = NodePath(n) /\ (n \in Members => data' = zkData[n])
      ]_vars

\* C16 happens: after a publish of the advertisement of one member, a later
\* cycle has located the node of the other member and is about to fetch it.
C16_Witness ==
    /\ pc = "fetch" /\ refreshed
    /\ leaderIP = "10.0.0.1"
    /\ zNode = NodePath("member_0000000005")

\* C17: the cached host changes only in the first assignment of Publish
\* and the cached port only in the second; no step of a query, of the
\* service or of the session-event goroutine changes either, nor does a
\* Locate, a Fetch or an Await of the watcher; and a step on the channel of
\* session events leaves the watcher where it is in its cycle.
C17_CacheWrittenByPublishOnly ==
    [][ /\ leaderIP' # leaderIP => (pc = "setIP" /\ pc' = "setPort")
        /\ leaderPort' # leaderPort => (pc = "setPort" /\ pc' = "unlock")
        /\ (queryVars' # queryVars \/ zkVars' # zkVars) => UNCHANGED cacheVars
        /\ (pc \in {"locate", "fetch", "await"}) => UNCHANGED cacheVars
        /\ sessionEvents' # sessionEvents => UNCHANGED <<cacheVars, lockVars, watchVars>>
      ]_vars

\* C17 happens: the goroutine has logged the session events sent so far
\* while the watcher, having published, waits on the notification channel.
C17_Witness ==
    /\ sessionEvents = Drained
    /\ pc = "await" /\ events = Armed
    /\ leaderIP = "10.0.0.2" /\ leaderPort = 8082

(***************************************************************************)
(* The order of the listing, checked under SpecSel.                        *)
(***************************************************************************)
\* The lists that hold the elements of c in another order.
Reorderings(c) ==
    { [i \in 1..Len(c) |-> c[p[i]]] :
        p \in { f \in [1..Len(c) -> 1..Len(c)] :
                  \A i, j \in 1..Len(c) : f[i] = f[j] => i = j } }

\* C18: on a list of children that all carry the prefix and a non-negative
\* integer suffix, leaderzNode returns what it returns on every reordering
\* of the list.
C18_ListingOrderIrrelevant ==
    LET c == selIn.children IN
    ( /\ Selected
      /\ \A i \in 1..Len(c) : HasPrefix(c[i]) /\ IsSequenceNumber(Suffix(c[i])) )
    => \A d \in Reorderings(c) : leaderzNode([selIn EXCEPT !.children = d]) = selOut

(***************************************************************************)
(* The cache over the cycles, checked under Spec.                          *)
(***************************************************************************)
\* C19: a cache that holds a leader is never emptied: no step takes the
\* cached host from a host to the empty string, so that a query that
\* follows one that returned a URL finds a host too.
C19_CacheNeverEmptied ==
    [][leaderIP # "" => leaderIP' # ""]_vars
=============================================================================
